---- MODULE Spec2Model ----
(***************************************************************************)
(* kstrace command layer (cmd/cmd.go): RunE = Complete; Validate; Run.     *)
(*                                                                         *)
(* The state is the KubeStraceCommand struct, the position of RunE/Run,    *)
(* the stack of deferred calls of Run, and the history of the calls Run    *)
(* makes into package kstrace (CreateNamespace, Start, Stop, Cleanup,      *)
(* CleanupNamespace).  The results of those calls are inputs of the        *)
(* command layer and are drawn nondeterministically.                       *)
(*                                                                         *)
(* Durations are counted in milliseconds; the duration strings that are    *)
(* tried use only the units ms, s, m, h and no fraction.                   *)
(***************************************************************************)
EXTENDS Integers, Sequences, FiniteSets, TLC

\* ---------------------------------------------------------------- bounds
MaxTargets == 3
MaxContainers == 2

\* ------------------------------------------------------------- variables
VARIABLES
    pc,                \* position of RunE / Run
    objects,           \* what builder.Do() visits: the resolved objects
    outputDirectory,   \* *kCmd.outputDirectory
    traceTimeoutStr,   \* *kCmd.traceTimeoutStr, a sequence of characters
    loopVarPerIter,    \* Go >= 1.22 range semantics (one variable per iteration)
    targetPods,        \* kCmd.targetPods
    traceTimeout,      \* kCmd.traceTimeout (milliseconds)
    validateErr,       \* what Validate returned
    tracers,           \* kCmd.tracers
    targetPod,         \* the range variable(s) of the construction loop
    ns,                \* ns of Run: "unset", "nil", "" (empty object) or a name
    defers,            \* Run's stack of deferred calls, top is the last element
    idx,               \* index of the range loop over kCmd.tracers
    err,               \* err of Run
    ret,               \* the value of Run's return statement
    exitErr,           \* what RunE returned
    calls              \* history of the calls into package kstrace

vars == <<pc, objects, outputDirectory, traceTimeoutStr, loopVarPerIter,
          targetPods, traceTimeout, validateErr, tracers, targetPod, ns,
          defers, idx, err, ret, exitErr, calls>>

\* ---------------------------------------------------------------- errors
Err(k, t) == [kind |-> k, t |-> t]
Nil == Err("nil", 0)

\* ------------------------------------------------- time.ParseDuration
Digits == {"0", "1", "2", "3", "4", "5", "6", "7", "8", "9"}

DigitVal(c) ==
    CASE c = "0" -> 0 [] c = "1" -> 1 [] c = "2" -> 2 [] c = "3" -> 3
      [] c = "4" -> 4 [] c = "5" -> 5 [] c = "6" -> 6 [] c = "7" -> 7
      [] c = "8" -> 8 [] c = "9" -> 9

\* unitMap of package time, in milliseconds
unitMap ==
    [u \in {<<"m", "s">>, <<"s">>, <<"m">>, <<"h">>} |->
        CASE u = <<"m", "s">> -> 1
          [] u = <<"s">> -> 1000
          [] u = <<"m">> -> 60000
          [] u = <<"h">> -> 3600000]

\* leadingInt: the value of the leading digits of s and the rest of s
RECURSIVE leadingInt(_, _)
leadingInt(s, v) ==
    IF s # <<>> /\ Head(s) \in Digits
    THEN leadingInt(Tail(s), v * 10 + DigitVal(Head(s)))
    ELSE [v |-> v, rem |-> s]

\* length of the unit: the characters up to the next digit
RECURSIVE unitLen(_)
unitLen(s) ==
    IF s = <<>> \/ Head(s) \in Digits THEN 0 ELSE 1 + unitLen(Tail(s))

\* the loop of ParseDuration over ([0-9]+[a-z]+)+, d is the sum so far
RECURSIVE parseTerms(_, _)
parseTerms(s, d) ==
    IF s = <<>> THEN [ok |-> TRUE, d |-> d]
    ELSE IF Head(s) \notin Digits THEN [ok |-> FALSE, d |-> 0]
    ELSE LET li == leadingInt(s, 0)
             n  == unitLen(li.rem)
             u  == SubSeq(li.rem, 1, n)
         IN  IF n = 0 THEN [ok |-> FALSE, d |-> 0]             \* missing unit
             ELSE IF u \notin DOMAIN unitMap THEN [ok |-> FALSE, d |-> 0]
             ELSE parseTerms(SubSeq(li.rem, n + 1, Len(li.rem)),
                             d + li.v * unitMap[u])

ParseDuration(str) ==
    LET signed == str # <<>> /\ Head(str) \in {"-", "+"}
        neg    == str # <<>> /\ Head(str) = "-"
        s      == IF signed THEN Tail(str) ELSE str
        r      == parseTerms(s, 0)
    IN  IF s = <<"0">> THEN [ok |-> TRUE, d |-> 0]
        ELSE IF s = <<>> THEN [ok |-> FALSE, d |-> 0]
        ELSE IF ~r.ok THEN r
        ELSE [ok |-> TRUE, d |-> IF neg THEN 0 - r.d ELSE r.d]

\* ---------------------------------------------------------------- inputs
Kinds == {"Pod", "Deployment", "VisitError"}

\* the object lists the builder can resolve: distinct names, up to MaxTargets
ObjectLists ==
    UNION {
        {o \in [1..n -> [name : 1..n, kind : Kinds, containers : 1..MaxContainers]] :
            \A i \in 1..n : o[i].name = i
                            /\ (o[i].kind # "Pod" => o[i].containers = 1)}
        : n \in 0..MaxTargets}

OutputDirectories == {"-", "strace-collection"}

DurationStrings ==
    { <<"0">>, <<"5", "s">>, <<"-", "5", "s">>, <<"1", "m", "5", "s">>,
      <<>>, <<"5">>, <<"5", "x">>, <<"-">> }

\* ------------------------------------------------------ processResources
RECURSIVE visit(_, _)
visit(objs, podSlice) ==
    IF objs = <<>> THEN [pods |-> podSlice, err |-> Nil]
    ELSE LET o == Head(objs) IN
         IF o.kind = "VisitError" THEN [pods |-> <<>>, err |-> Err("visit", o.name)]
         ELSE IF o.kind = "Pod"
              THEN visit(Tail(objs),
                         Append(podSlice, [name |-> o.name, containers |-> o.containers]))
              ELSE [pods |-> <<>>, err |-> Err("not supported", o.name)]

processResources(objs) == visit(objs, <<>>)

\* --------------------------------------------------------------- Validate
\* the check of the first pod's containers is missing
checkFlags_NoContainerCheck(pods, out) ==
    IF Len(pods) < 1 THEN Err("a target pod must be defined", 0)
    ELSE IF Len(pods) > 1 /\ out = "-" THEN Err("multiple target pods", 0)
    ELSE Nil

\* the flag checks of Validate
checkFlags(pods, out) ==
    IF Len(pods) < 1 THEN Err("a target pod must be defined", 0)
    ELSE IF Len(pods) > 1 /\ out = "-" THEN Err("multiple target pods", 0)
    ELSE IF pods[1].containers > 1 /\ out = "-"
         THEN Err("multiple containers", pods[1].name)
    ELSE Nil

\* Validate as a function of the command's fields: the new targetPods,
\* traceTimeout and the returned error
validate(objs, out, str) ==
    LET r  == processResources(objs)
        fe == checkFlags(r.pods, out)
        pd == ParseDuration(str)
    IN  IF r.err # Nil THEN [pods |-> r.pods, timeout |-> 0, err |-> r.err]
        ELSE IF fe # Nil THEN [pods |-> r.pods, timeout |-> 0, err |-> fe]
        ELSE IF ~pd.ok THEN [pods |-> r.pods, timeout |-> pd.d, err |-> Err("duration", 0)]
        ELSE [pods |-> r.pods, timeout |-> pd.d, err |-> Nil]

\* ------------------------------------------------------------------- Init
Init ==
    /\ pc = "Complete"
    /\ objects \in ObjectLists
    /\ outputDirectory \in OutputDirectories
    /\ traceTimeoutStr \in DurationStrings
    /\ loopVarPerIter \in BOOLEAN
    /\ targetPods = <<>>
    /\ traceTimeout = 0
    /\ validateErr = Err("not run", 0)
    /\ tracers = <<>>
    /\ targetPod = <<>>
    /\ ns = "unset"
    /\ defers = <<>>
    /\ idx = 0
    /\ err = Nil
    /\ ret = Nil
    /\ exitErr = Err("running", 0)
    /\ calls = <<>>

\* ------------------------------------------------------------------- RunE
\* Complete: log level, clientset and builder set-up; it fails or not
Complete ==
    /\ pc = "Complete"
    /\ \E ok \in BOOLEAN :
         IF ok THEN pc' = "Validate" /\ exitErr' = exitErr
               ELSE pc' = "Exit" /\ exitErr' = Err("complete", 0)
    /\ UNCHANGED <<objects, outputDirectory, traceTimeoutStr, loopVarPerIter,
                   targetPods, traceTimeout, validateErr, tracers, targetPod,
                   ns, defers, idx, err, ret, calls>>

\* RunE goes on to Run whatever Validate returned
afterValidate_Ignore(e) == "CreateNamespace"

\* RunE after Validate: return its error, or go on to Run
afterValidate(e) == IF e # Nil THEN "Exit" ELSE "CreateNamespace"

Validate ==
    /\ pc = "Validate"
    /\ LET v == validate(objects, outputDirectory, traceTimeoutStr) IN
         /\ targetPods' = v.pods
         /\ traceTimeout' = v.timeout
         /\ validateErr' = v.err
         /\ pc' = afterValidate(v.err)
         /\ exitErr' = IF pc' = "Exit" THEN v.err ELSE exitErr
    /\ UNCHANGED <<objects, outputDirectory, traceTimeoutStr, loopVarPerIter,
                   tracers, targetPod, ns, defers, idx, err, ret, calls>>

\* -------------------------------------------------------------------- Run
Call(op, t, arg, ok) == [op |-> op, t |-> t, arg |-> arg, ok |-> ok]
Deferred(op, t, arg) == [op |-> op, t |-> t, arg |-> arg]

NamespaceName == "kstrace"

\* what CreateNamespace can return: a namespace, an error with a nil
\* namespace, or an error with an empty namespace object
CreateOutcomes == {"ok", "err nil", "err empty"}

\* ns, err := kstrace.CreateNamespace(...)
\* defer kstrace.CleanupNamespace(ctx, clientset, ns.Name)
\* if err != nil { return err }
RunCreateNamespace ==
    /\ pc = "CreateNamespace"
    /\ \E out \in CreateOutcomes :
         /\ calls' = Append(calls, Call("CreateNamespace", 0, "", out = "ok"))
         /\ err' = IF out = "ok" THEN Nil ELSE Err("create namespace", 0)
         /\ ns' = CASE out = "ok" -> NamespaceName
                     [] out = "err nil" -> "nil"
                     [] out = "err empty" -> ""
         /\ IF out = "err nil"
            THEN \* ns.Name dereferences nil while the defer is evaluated
                 /\ pc' = "Panic"
                 /\ UNCHANGED <<defers, ret, idx>>
            ELSE /\ defers' = Append(defers, Deferred("CleanupNamespace", 0, ns'))
                 /\ IF err' # Nil
                    THEN pc' = "Return" /\ ret' = err' /\ idx' = idx
                    ELSE pc' = "Construct" /\ ret' = ret /\ idx' = 1
    /\ UNCHANGED <<objects, outputDirectory, traceTimeoutStr, loopVarPerIter,
                   targetPods, traceTimeout, validateErr, tracers, targetPod,
                   exitErr>>

\* kstrace.NewKStracer(..., &targetPod, ns.Name, ..., traceTimeout, outputDirectory)
NewKStracer(podAddr, nsName, timeout, out) ==
    [targetPod |-> podAddr, namespace |-> nsName,
     traceTimeout |-> timeout, output |-> out]

\* the address of the range variable in iteration i
addrOfTargetPod(i) == IF loopVarPerIter THEN i ELSE 0

\* the pod a tracer traces: the tracer keeps the target reference it was
\* constructed with, and the pod is what that reference designates
tracedTarget(tr) == targetPod[tr.targetPod]

\* for _, targetPod := range kCmd.targetPods { ... append ... }
RunConstruct ==
    /\ pc = "Construct"
    /\ IF idx <= Len(targetPods)
       THEN /\ targetPod' = (addrOfTargetPod(idx) :> targetPods[idx]) @@ targetPod
            /\ tracers' = Append(tracers,
                    NewKStracer(addrOfTargetPod(idx), ns, traceTimeout, outputDirectory))
            /\ idx' = idx + 1
            /\ pc' = pc
       ELSE /\ pc' = "Start"
            /\ idx' = 1
            /\ UNCHANGED <<targetPod, tracers>>
    /\ UNCHANGED <<objects, outputDirectory, traceTimeoutStr, loopVarPerIter,
                   targetPods, traceTimeout, validateErr, ns, defers, err,
                   ret, exitErr, calls>>

\* off by one: the loop stops before the last tracer
moreTracers_StopsEarly(i, ts) == i < Len(ts)

\* the range loop over kCmd.tracers has an element left
moreTracers(i, ts) == i <= Len(ts)

\* only Stop is deferred, Cleanup is forgotten
deferTeardown_StopOnly(stack, t) == stack \o <<Deferred("Stop", t, "")>>

\* the two defers are written in the other order
deferTeardown_Swapped(stack, t) ==
    stack \o <<Deferred("Stop", t, ""), Deferred("Cleanup", t, "")>>

\* defer tracer.Cleanup(); defer tracer.Stop()
deferTeardown(stack, t) ==
    stack \o <<Deferred("Cleanup", t, ""), Deferred("Stop", t, "")>>

\* the error of Start is never looked at
startFailed_Never(e) == FALSE

\* if err != nil { return err }
startFailed(e) == e # Nil

\* for _, tracer := range kCmd.tracers { err = tracer.Start(); ... }; return nil
RunStart ==
    /\ pc = "Start"
    /\ IF moreTracers(idx, tracers)
       THEN \E ok \in BOOLEAN :
            /\ calls' = Append(calls, Call("Start", idx, "", ok))
            /\ err' = IF ok THEN Nil ELSE Err("start", idx)
            /\ defers' = deferTeardown(defers, idx)
            /\ IF startFailed(err')
               THEN pc' = "Return" /\ ret' = err' /\ idx' = idx
               ELSE pc' = pc /\ ret' = ret /\ idx' = idx + 1
       ELSE /\ pc' = "Return"
            /\ ret' = Nil
            /\ UNCHANGED <<calls, err, defers, idx>>
    /\ UNCHANGED <<objects, outputDirectory, traceTimeoutStr, loopVarPerIter,
                   targetPods, traceTimeout, validateErr, tracers, targetPod,
                   ns, exitErr>>

\* deferred calls run in registration order
runDeferred_Fifo(stack) == [call |-> Head(stack), rest |-> Tail(stack)]

\* the deferred call that runs next (the last one registered), and the
\* stack without it
runDeferred(stack) ==
    [call |-> stack[Len(stack)], rest |-> SubSeq(stack, 1, Len(stack) - 1)]

\* a failing deferred call replaces the value Run returns
retAfterDeferred_Escalate(r, d, ok) == IF ok THEN r ELSE Err("teardown", d.t)

\* the value Run returns once a deferred call has returned ok or not:
\* the results of the deferred calls are discarded
retAfterDeferred(r, d, ok) == r

\* the first failing deferred call ends the teardown
restAfterDeferred_AbortOnFailure(stack, ok) ==
    IF ok THEN runDeferred(stack).rest ELSE <<>>

\* the deferred calls still to run once the top one has returned ok or
\* not: all the others, whatever it returned
restAfterDeferred(stack, ok) == runDeferred(stack).rest

\* Run is returning: the deferred calls run, last registered first
RunDeferred ==
    /\ pc = "Return"
    /\ defers # <<>>
    /\ LET d == runDeferred(defers).call IN
         \E ok \in BOOLEAN :
            /\ calls' = Append(calls, Call(d.op, d.t, d.arg, ok))
            /\ ret' = retAfterDeferred(ret, d, ok)
            /\ defers' = restAfterDeferred(defers, ok)
    /\ UNCHANGED <<pc, objects, outputDirectory, traceTimeoutStr, loopVarPerIter,
                   targetPods, traceTimeout, validateErr, tracers, targetPod,
                   ns, idx, err, exitErr>>

\* Run has returned to RunE, which returns the same error
RunReturn ==
    /\ pc = "Return"
    /\ defers = <<>>
    /\ pc' = "Exit"
    /\ exitErr' = ret
    /\ UNCHANGED <<objects, outputDirectory, traceTimeoutStr, loopVarPerIter,
                   targetPods, traceTimeout, validateErr, tracers, targetPod,
                   ns, defers, idx, err, ret, calls>>

\* the positions at which Run is in progress
RunPositions == {"CreateNamespace", "Construct", "Start", "Return"}

\* An interrupt (SIGINT) while Run is in progress.  Run passes
\* context.TODO() and the command registers no signal handler, so the Go
\* runtime ends the process; deferred calls do not run.
Interrupt ==
    /\ pc \in RunPositions
    /\ pc' = "Killed"
    /\ UNCHANGED <<objects, outputDirectory, traceTimeoutStr, loopVarPerIter,
                   targetPods, traceTimeout, validateErr, tracers, targetPod,
                   ns, defers, idx, err, ret, exitErr, calls>>

Next ==
    \/ Complete
    \/ Validate
    \/ RunCreateNamespace
    \/ RunConstruct
    \/ RunStart
    \/ RunDeferred
    \/ RunReturn
    \/ Interrupt

Spec == Init /\ [][Next]_vars

\* ============================================================ properties
\* positions in the history of the calls of op on tracer t (t = 0: namespace)
Pos(op, t) == {p \in 1..Len(calls) : calls[p].op = op /\ calls[p].t = t}
Count(op, t) == Cardinality(Pos(op, t))
CountOp(op) == Cardinality({p \in 1..Len(calls) : calls[p].op = op})
Failed(op, t) == \E p \in Pos(op, t) : ~calls[p].ok
Succeeded(op, t) == \E p \in Pos(op, t) : calls[p].ok
Tracers == 1..Len(tracers)

\* Run was invoked and has returned to RunE
RunReturned == pc = "Exit" /\ validateErr = Nil
CreateOk == Succeeded("CreateNamespace", 0)
NoStartFailed == \A t \in Tracers : ~Failed("Start", t)

\* C1: when CreateNamespace and every Start succeed, then by the time Run
\* returns Start was called once on each of the N = len(targetPods) tracers
\* (N starts in all), Cleanup was called exactly N times, once per tracer,
\* and CleanupNamespace was called exactly once.
C1_SuccessfulRunCounts ==
    (RunReturned /\ CreateOk /\ NoStartFailed) =>
        /\ Len(targetPods) >= 1
        /\ Len(tracers) = Len(targetPods)
        /\ CountOp("Start") = Len(targetPods)
        /\ \A t \in 1..Len(targetPods) : Count("Start", t) = 1 /\ Count("Cleanup", t) = 1
        /\ CountOp("Cleanup") = Len(targetPods)
        /\ CountOp("CleanupNamespace") = 1

C1_Witness ==
    /\ RunReturned /\ CreateOk /\ NoStartFailed
    /\ Len(targetPods) = 3
    /\ CountOp("Cleanup") = 3

\* C2: no tracer is ever stopped or cleaned up twice, and when Run has
\* returned every tracer whose Start succeeded has had Stop called exactly
\* once and Cleanup called exactly once, also when a later Start failed.
C2_StartedTracersTornDown ==
    /\ \A t \in Tracers : Count("Stop", t) <= 1 /\ Count("Cleanup", t) <= 1
    /\ RunReturned =>
         \A t \in Tracers :
            Succeeded("Start", t) => Count("Stop", t) = 1 /\ Count("Cleanup", t) = 1

C2_Witness ==
    /\ RunReturned
    /\ Succeeded("Start", 1) /\ Failed("Start", 2)
    /\ ret = Err("start", 2)
    /\ Count("Stop", 1) = 1 /\ Count("Cleanup", 1) = 1

\* C3 (as claimed): with 3 targets where the Start of the 2nd fails, Run
\* returns the error of that target, Cleanup was called on the 1st and on
\* the 3rd tracer, and the namespace was deleted exactly once, as the last
\* call.
C3_PartialFailureClaim ==
    (RunReturned /\ Len(targetPods) = 3 /\ Succeeded("Start", 1) /\ Failed("Start", 2)) =>
        /\ exitErr = Err("start", 2)
        /\ Count("Cleanup", 1) = 1
        /\ Count("Cleanup", 3) = 1
        /\ Pos("CleanupNamespace", 0) = {Len(calls)}

\* C4: every Start, Stop and Cleanup comes after the successful
\* CreateNamespace and before any CleanupNamespace; CleanupNamespace is
\* never called twice; and when Run returns after a successful
\* CreateNamespace (all Starts succeeded, or one failed) CleanupNamespace
\* was called exactly once, as the last call, after Stop and Cleanup of
\* every tracer on which Start was called.
C4_NamespaceBracketsTracers ==
    /\ \A p \in 1..Len(calls) :
          calls[p].op \in {"Start", "Stop", "Cleanup"} =>
              /\ \E q \in 1..(p - 1) : calls[q].op = "CreateNamespace" /\ calls[q].ok
              /\ \A q \in 1..(p - 1) : calls[q].op # "CleanupNamespace"
    /\ CountOp("CleanupNamespace") <= 1
    /\ (RunReturned /\ CreateOk) =>
          /\ Pos("CleanupNamespace", 0) = {Len(calls)}
          /\ \A t \in Tracers :
                Count("Start", t) > 0 => Count("Stop", t) = 1 /\ Count("Cleanup", t) = 1

C4_Witness ==
    /\ RunReturned /\ CreateOk
    /\ Succeeded("Start", 1) /\ Failed("Start", 2)
    /\ Count("Cleanup", 2) = 1
    /\ calls[Len(calls)].op = "CleanupNamespace"

\* C5: for each tracer Stop comes after its Start and Cleanup after its
\* Stop; and when Start was called on tracer i before tracer j, Stop(j) and
\* Cleanup(j) both come before Stop(i) and before Cleanup(i).
C5_ReverseOfStartTeardown ==
    /\ \A t \in Tracers :
          /\ \A p \in Pos("Stop", t) : \E q \in Pos("Start", t) : q < p
          /\ \A p \in Pos("Cleanup", t) : \E q \in Pos("Stop", t) : q < p
    /\ \A i, j \in Tracers :
          (\E a \in Pos("Start", i), b \in Pos("Start", j) : a < b) =>
              \A p \in Pos("Stop", i) \cup Pos("Cleanup", i) :
                  /\ \E q \in Pos("Stop", j) : q < p
                  /\ \E q \in Pos("Cleanup", j) : q < p

C5_Witness ==
    /\ RunReturned
    /\ Len(tracers) = 3
    /\ \A t \in Tracers : Succeeded("Start", t) /\ Count("Cleanup", t) = 1
    /\ \E p \in Pos("Cleanup", 3), q \in Pos("Stop", 1) : p < q

\* the pods among the resolved objects
RECURSIVE podsOf(_)
podsOf(objs) ==
    IF objs = <<>> THEN <<>>
    ELSE IF Head(objs).kind = "Pod" THEN <<Head(objs)>> \o podsOf(Tail(objs))
    ELSE podsOf(Tail(objs))

Validated == validateErr # Err("not run", 0)

\* C6: with output "-", Validate succeeds only if exactly one target pod was
\* resolved and it has at most one container; with more than one target
\* pod, or one target pod with more than one container, Validate returns an
\* error and nothing is created (no call into kstrace, no tracer).
C6_ConsoleCardinality ==
    (Validated /\ outputDirectory = "-") =>
        /\ validateErr = Nil =>
              /\ Len(podsOf(objects)) = 1
              /\ Len(targetPods) = 1
              /\ targetPods[1].containers <= 1
        /\ (\/ Len(podsOf(objects)) > 1
            \/ Len(podsOf(objects)) = 1 /\ podsOf(objects)[1].containers > 1) =>
              /\ validateErr # Nil
              /\ pc = "Exit" /\ exitErr = validateErr
              /\ calls = <<>> /\ tracers = <<>> /\ ns = "unset"

C6_Witness ==
    /\ outputDirectory = "-"
    /\ validateErr = Err("multiple containers", 1)
    /\ Len(objects) = 1
    /\ pc = "Exit"

\* C7: whenever Validate returns an error, RunE returns it without
\* invoking Run: no call into kstrace is made, no tracer is constructed, no
\* namespace exists and nothing is deferred.
C7_ValidateFailFast ==
    (Validated /\ validateErr # Nil) =>
        /\ pc = "Exit"
        /\ exitErr = validateErr
        /\ calls = <<>>
        /\ tracers = <<>>
        /\ defers = <<>>
        /\ ns = "unset"

C7_Witness ==
    /\ validateErr = Err("duration", 0)
    /\ Len(targetPods) >= 1
    /\ pc = "Exit"

\* C8 (as claimed): Validate succeeds only if the trace duration is not
\* negative, so no tracer is constructed with a negative trace timeout.
C8_NonNegativeDurationClaim ==
    /\ (Validated /\ validateErr = Nil) => traceTimeout >= 0
    /\ \A t \in Tracers : tracers[t].traceTimeout >= 0

\* C9: when CreateNamespace and every Start succeeded, Run returns nil,
\* whether or not a Stop, a Cleanup or CleanupNamespace failed.
C9_CleanupErrorsNotEscalated ==
    (RunReturned /\ CreateOk /\ NoStartFailed) => ret = Nil /\ exitErr = Nil

C9_Witness ==
    /\ RunReturned /\ CreateOk /\ NoStartFailed
    /\ Failed("Stop", 1) /\ Failed("Cleanup", 2) /\ Failed("CleanupNamespace", 0)
    /\ exitErr = Nil

\* C10 (as claimed): after an interrupt while Run is in progress, Stop and
\* then Cleanup have been called on every tracer that was started, and the
\* namespace that was created has been deleted.
C10_InterruptTeardownClaim ==
    pc = "Killed" =>
        /\ \A t \in Tracers :
              Count("Start", t) > 0 =>
                  \E p \in Pos("Stop", t), q \in Pos("Cleanup", t) : p < q
        /\ CreateOk => CountOp("CleanupNamespace") = 1

\* C11 (as claimed): Start is invoked on the tracer of every resolved
\* target, also when the Start of an earlier tracer returned an error.
C11_SiblingsStillStartedClaim ==
    (RunReturned /\ CreateOk) =>
        \A t \in 1..Len(targetPods) : Count("Start", t) >= 1

\* C12: when Run has returned and the Start of a tracer had failed, Stop
\* and Cleanup were called (once each, Stop first) on that same tracer, and
\* Run returned that tracer's Start error, which is not nil.
C12_FailedStartCleanedAndReturned ==
    RunReturned =>
        \A t \in Tracers :
            Failed("Start", t) =>
                /\ Count("Stop", t) = 1 /\ Count("Cleanup", t) = 1
                /\ \E p \in Pos("Stop", t), q \in Pos("Cleanup", t) : p < q
                /\ ret = Err("start", t)
                /\ exitErr = Err("start", t)
                /\ exitErr # Nil

C12_Witness ==
    /\ RunReturned
    /\ Succeeded("Start", 1) /\ Failed("Start", 2)
    /\ Count("Stop", 2) = 1 /\ Count("Cleanup", 2) = 1
    /\ exitErr = Err("start", 2)

\* the deferred calls that were registered: the namespace deletion after a
\* CreateNamespace that returned a namespace, Stop and Cleanup of every
\* tracer on which Start was called
Registered ==
    (IF Count("CreateNamespace", 0) > 0 /\ ns # "nil"
     THEN {Deferred("CleanupNamespace", 0, ns)} ELSE {})
    \cup UNION {{Deferred("Stop", t, ""), Deferred("Cleanup", t, "")} :
                  t \in {u \in Tracers : Count("Start", u) > 0}}

Attempted(d) == \E p \in 1..Len(calls) : calls[p].op = d.op /\ calls[p].t = d.t

\* C13: a failing Stop or Cleanup (or any failing teardown call) stops
\* nothing: while Run returns, every registered teardown call that has not
\* been attempted yet is still on the stack of deferred calls, and when Run
\* has returned after a tracer's Stop or Cleanup failed, that tracer's
\* Cleanup, Stop and Cleanup of every tracer started before it, and the
\* namespace deletion have all been called.
C13_TeardownFaultTolerant ==
    /\ pc = "Return" =>
          \A d \in Registered :
              Attempted(d) \/ \E k \in 1..Len(defers) : defers[k] = d
    /\ (RunReturned /\ CreateOk) =>
          \A t \in Tracers :
              (Failed("Stop", t) \/ Failed("Cleanup", t)) =>
                  /\ Count("Cleanup", t) = 1
                  /\ \A i \in 1..t : Count("Stop", i) = 1 /\ Count("Cleanup", i) = 1
                  /\ CountOp("CleanupNamespace") = 1

C13_Witness ==
    /\ RunReturned /\ CreateOk
    /\ Len(tracers) >= 2
    /\ Failed("Stop", 2) /\ Failed("Cleanup", 2)
    /\ Count("Stop", 1) = 1 /\ Count("Cleanup", 1) = 1
    /\ CountOp("CleanupNamespace") = 1

\* C14 (as claimed): once the construction loop is over there is one
\* tracer per target pod, the i-th tracer traces the i-th target pod, and
\* no two tracers trace the same pod.
C14_OneTracerPerTargetClaim ==
    (pc \in {"Start", "Return", "Exit"} /\ validateErr = Nil /\ CreateOk) =>
        /\ Len(tracers) = Len(targetPods)
        /\ \A i \in Tracers : tracedTarget(tracers[i]) = targetPods[i]
        /\ \A i, j \in Tracers :
              i # j => tracedTarget(tracers[i]).name # tracedTarget(tracers[j]).name

\* C15 (as claimed): when CreateNamespace fails, Run does not fault,
\* constructs and starts no tracer, attempts no namespace deletion, and
\* returns the creation error.
C15_NoDeletionWithoutNamespaceClaim ==
    Failed("CreateNamespace", 0) =>
        /\ pc # "Panic"
        /\ tracers = <<>>
        /\ CountOp("Start") = 0
        /\ CountOp("CleanupNamespace") = 0
        /\ pc = "Exit" => exitErr = Err("create namespace", 0)

====
